---- MODULE Spec2Model ----
(***************************************************************************)
(* Keyless account derivation (src/internal/keyless.ts) and the Simulate   *)
(* API class (src/api/transactionSubmission/simulate.ts) of aptos-ts-sdk.  *)
(*                                                                         *)
(* Every async function is cut at its awaits: one action runs a handler    *)
(* from the event that resumes it (a call, or a service response) to the   *)
(* next await that waits for a service or for a pending promise.           *)
(***************************************************************************)
EXTENDS Integers, Sequences, FiniteSets, TLC

VARIABLES
    now,        \* Date.now(), in milliseconds
    ticks,      \* number of clock advances so far
    cache,      \* the memoize cache: key -> <<>> or <<[value, timestamp]>>
    call,       \* per caller: the deriveKeylessAccount call it is running
    sim         \* the Simulate instance and its call in progress

vars == <<now, ticks, cache, call, sim>>

keylessVars == <<now, ticks, cache, call>>

----------------------------------------------------------------------------
(* Bounds of the model *)

MaxTicks == 2

\* the callers, each making one call: of deriveKeylessAccount, or of getProof
DeriveCallers == {"a"}

ProofCallers == {"b"}

Callers == DeriveCallers \cup ProofCallers

Networks == {"devnet", "testnet"}

\* steps by which the clock advances, in milliseconds
TickSteps == {1, 300000}

\* expiryDateSecs values a caller's EphemeralKeyPair may carry
ExpiryChoices == {300, 301}

\* values of max_exp_horizon_secs a full node may report, as decimal strings
HorizonStrings == {<<2, 0, 0>>, <<3, 0, 0>>}

----------------------------------------------------------------------------
(* Hex / HexInput: bytes, or a hex string given as its sequence of digits *)

PEPPER_LENGTH == 31

Bytes(n, b) == [i \in 1..n |-> b]

\* Hex.fromHexInput(x).toUint8Array(): a Uint8Array is taken as is, a hex
\* string is parsed two digits per byte
HexToUint8Array(x) ==
    IF x.kind = "bytes" THEN x.data
    ELSE [i \in 1..(Len(x.data) \div 2) |-> 16 * x.data[2 * i - 1] + x.data[2 * i]]

\* Hex.fromHexInput(x).toStringWithoutPrefix(): two hex digits per byte
HexToStringWithoutPrefix(x) ==
    LET b == HexToUint8Array(x)
    IN  [i \in 1..(2 * Len(b)) |->
            IF i % 2 = 1 THEN b[(i + 1) \div 2] \div 16 ELSE b[i \div 2] % 16]

AsBytes(b) == [kind |-> "bytes", data |-> b]

AsHexString(b) == [kind |-> "string", data |-> HexToStringWithoutPrefix(AsBytes(b))]

\* the pepper argument of deriveKeylessAccount: <<>> is undefined
PepperArgs ==
    { <<>>,
      <<AsHexString(Bytes(PEPPER_LENGTH, 171))>>,
      <<AsBytes(Bytes(PEPPER_LENGTH - 1, 171))>> }

\* data.pepper of a pepper service response, a hex string
PepperResponses ==
    { AsHexString(Bytes(PEPPER_LENGTH, 205)),
      AsHexString(Bytes(PEPPER_LENGTH + 1, 205)) }

----------------------------------------------------------------------------
(* Helpers *)

RECURSIVE DecimalValue(_)
DecimalValue(s) ==
    IF s = <<>> THEN 0 ELSE 10 * DecimalValue(SubSeq(s, 1, Len(s) - 1)) + s[Len(s)]

\* Number(config.max_exp_horizon_secs)
Number(s) == DecimalValue(s)

\* currentTimeInSeconds(): Math.floor(Date.now() / 1000)
currentTimeInSeconds == now \div 1000

----------------------------------------------------------------------------
(* memoizeAsync(func, key, ttlMs): the cache of src/utils/memoize *)

\* as KeylessCacheKey, with the network left out of the key
KeylessCacheKey_NoNetwork(network) == <<"keyless-configuration">>

\* the key getKeylessConfig memoizes under
KeylessCacheKey(network) == <<"keyless-configuration", network>>

\* 1000 * 60 * 5, 5 minutes
KeylessCacheTtlMs == 1000 * 60 * 5

\* the wrapper returns the cached value while it is no older than ttlMs
memoizeHit(key, ttlMs) ==
    /\ key \in DOMAIN cache
    /\ now - cache[key].timestamp <= ttlMs

\* cache.set(key, { value: result, timestamp: Date.now() })
memoizeStore(key, value) == (key :> [value |-> value, timestamp |-> now]) @@ cache

----------------------------------------------------------------------------
(* One deriveKeylessAccount call *)

IdleCall ==
    [ pc             |-> "idle",     \* position of deriveKeylessAccount
      task           |-> "none",     \* position of the getProof it started
      network        |-> "devnet",   \* args.aptosConfig.network
      pepperArg      |-> <<>>,       \* args.pepper
      callback       |-> FALSE,      \* args.proofFetchCallback is given
      expiryDateSecs |-> 0,          \* args.ephemeralKeyPair.expiryDateSecs
      pepper         |-> <<>>,       \* the local pepper, once it is bytes
      maxExpStr      |-> <<>>,       \* config.max_exp_horizon_secs, while vk is fetched
      config         |-> <<>>,       \* the KeylessConfiguration getProof read
      proof          |-> <<>>,       \* the ZeroKnowledgeSig getProof returned
      error          |-> "",         \* what deriveKeylessAccount threw
      taskError      |-> "",         \* what getProof threw
      account        |-> <<>>,       \* the KeylessAccount returned
      cbStatus       |-> "",         \* status the proofFetchCallback was called with
      pepperReqs     |-> 0,          \* requests sent to the pepper service
      nodeReqs       |-> 0,          \* requests sent to the full node
      proveReqs      |-> 0,          \* requests sent to the proving service
      proveBody      |-> <<>>,       \* body of the prove request sent
      lifetime       |-> <<>>,       \* expiryDateSecs - currentTimeInSeconds() on line 136
      fromCache      |-> FALSE,      \* getKeylessConfig answered from the cache
      fetchedAt      |-> <<>>,       \* Date.now() when its configuration fetch completed
      servicePepper  |-> <<>> ]      \* data.pepper of the pepper service's answer

\* KeylessConfiguration.create(vk, maxExpHorizonSecs)
KeylessConfigurationCreate(vk, maxExpHorizonSecs) ==
    [verificationKey |-> vk, maxExpHorizonSecs |-> maxExpHorizonSecs]

\* as PepperUndefined, fetching the pepper whether or not one is supplied
PepperUndefined_Always(pepperArg) == TRUE

\* pepper === undefined
PepperUndefined(pepperArg) == pepperArg = <<>>

\* as PepperLengthWrong, refusing only peppers that are too short
PepperLengthWrong_ShortOnly(pepper) == Len(pepper) < PEPPER_LENGTH

\* pepper.length !== KeylessAccount.PEPPER_LENGTH
PepperLengthWrong(pepper) == Len(pepper) # PEPPER_LENGTH

\* as TooLongLived, refusing a key pair that has expired as well
TooLongLived_OrExpired(maxExpHorizonSecs, expiryDateSecs, nowSecs) ==
    \/ maxExpHorizonSecs < expiryDateSecs - nowSecs
    \/ expiryDateSecs - nowSecs < 0

\* as TooLongLived, with <= for <
TooLongLived_OrEqual(maxExpHorizonSecs, expiryDateSecs, nowSecs) ==
    maxExpHorizonSecs <= expiryDateSecs - nowSecs

\* maxExpHorizonSecs < ephemeralKeyPair.expiryDateSecs - currentTimeInSeconds()
TooLongLived(maxExpHorizonSecs, expiryDateSecs, nowSecs) ==
    maxExpHorizonSecs < expiryDateSecs - nowSecs

\* as AwaitsProof, awaiting the proof even when a callback is given
AwaitsProof_Always(callback) == TRUE

\* as AwaitsProof, never awaiting the proof
AwaitsProof_Never(callback) == FALSE

\* proofFetchCallback ? proofPromise : await proofPromise
AwaitsProof(callback) == ~callback

\* the body of the prove request
ProverRequest(r, maxExpHorizonSecs) ==
    [ exp_date_secs    |-> r.expiryDateSecs,
      exp_horizon_secs |-> maxExpHorizonSecs,
      pepper           |-> HexToStringWithoutPrefix(AsBytes(r.pepper[1])) ]

\* as ZeroKnowledgeSig, taking the horizon from the prover's response
ZeroKnowledgeSig_FromResponse(data, maxExpHorizonSecs) ==
    [ proof                   |-> data.proof,
      trainingWheelsSignature |-> data.training_wheels_signature,
      expHorizonSecs          |-> data.exp_horizon_secs ]

\* new ZeroKnowledgeSig({ proof, trainingWheelsSignature, expHorizonSecs })
ZeroKnowledgeSig(data, maxExpHorizonSecs) ==
    [ proof                   |-> data.proof,
      trainingWheelsSignature |-> data.training_wheels_signature,
      expHorizonSecs          |-> maxExpHorizonSecs ]

\* KeylessAccount.create({ ...args, proof, pepper, proofFetchCallback })
KeylessAccountCreate(pepper, proof, proofIsPromise) ==
    [pepper |-> pepper, proof |-> proof, proofIsPromise |-> proofIsPromise]

\* a KeylessAccount created with a proof promise: when the promise rejects
\* the proofFetchCallback is called with status "Failed"
AccountProofFailed(r) == [r EXCEPT !.cbStatus = "Failed"]

\* a KeylessAccount created with a proof promise: when the promise resolves
\* the account takes the proof and the callback is called with "Success"
AccountProofFetched(r, sig) ==
    [r EXCEPT !.cbStatus = "Success",
              !.account = <<[r.account[1] EXCEPT !.proof = <<sig>>]>>]

\* getProof throws: an awaiting deriveKeylessAccount throws the same error,
\* an account holding the promise handles it
ProofRejected(r, err) ==
    LET thrown == [r EXCEPT !.task = "rejected", !.taskError = err]
    IN  IF r.pc = "awaitProof"
        THEN [thrown EXCEPT !.pc = "threw", !.error = err]
        ELSE IF r.account # <<>>
             THEN AccountProofFailed(thrown)
             ELSE thrown

\* getProof returns: an awaiting deriveKeylessAccount creates the account with
\* the proof, an account holding the promise takes it
ProofResolved(r, sig) ==
    LET returned == [r EXCEPT !.task = "resolved", !.proof = <<sig>>]
    IN  IF r.pc = "awaitProof"
        THEN [returned EXCEPT !.pc = "returned",
                 !.account = <<KeylessAccountCreate(r.pepper[1], <<sig>>, FALSE)>>]
        ELSE IF r.account # <<>>
             THEN AccountProofFetched(returned, sig)
             ELSE returned

\* getProof up to its first await: getKeylessConfig answers from the cache or
\* sends the request for the Configuration resource
getProofCall(r) ==
    IF memoizeHit(KeylessCacheKey(r.network), KeylessCacheTtlMs)
    THEN [r EXCEPT !.task = "awaitConfig", !.fromCache = TRUE,
                   !.config = <<cache[KeylessCacheKey(r.network)].value>>]
    ELSE [r EXCEPT !.task = "awaitConfigurationResource", !.nodeReqs = @ + 1]

\* deriveKeylessAccount from the pepper bytes on (lines 188-202)
deriveWithPepper(r, pepper) ==
    IF PepperLengthWrong(pepper)
    THEN [r EXCEPT !.pepper = <<pepper>>, !.pc = "threw", !.error = "PepperLength"]
    ELSE LET started == getProofCall([r EXCEPT !.pepper = <<pepper>>])
         IN  IF AwaitsProof(r.callback)
             THEN [started EXCEPT !.pc = "awaitProof"]
             ELSE [started EXCEPT !.pc = "returned",
                       !.account = <<KeylessAccountCreate(pepper, <<>>, TRUE)>>]

----------------------------------------------------------------------------
(* The Simulate instance *)

\* the AptosConfig objects an instance may be constructed with
AptosConfigs == {"devnetConfig", "testnetConfig"}

\* new Simulate(config), with no call in progress
SimulateNew(config) ==
    [ config      |-> config,   \* this.config
      constructed |-> config,   \* the constructor's argument
      pc          |-> "idle",   \* "idle", "simulating", "done"
      method      |-> "",       \* the method called
      args        |-> <<>>,     \* the caller's args object
      forwarded   |-> <<>>,     \* the object simulateTransaction was called with
      outcome     |-> <<>>,     \* what simulateTransaction returned or threw
      result      |-> <<>> ]    \* what the method returned or threw

----------------------------------------------------------------------------
(* Initial state and actions of the keyless flow *)

Init ==
    /\ now = 0
    /\ ticks = 0
    /\ cache = <<>>
    /\ call = [c \in Callers |-> IdleCall]
    /\ sim = SimulateNew("devnetConfig")

\* time passes
Tick ==
    /\ ticks < MaxTicks
    /\ \E d \in TickSteps : now' = now + d
    /\ ticks' = ticks + 1
    /\ UNCHANGED <<cache, call, sim>>

\* deriveKeylessAccount(args), up to its first await (lines 180-186)
deriveKeylessAccount(c) ==
    /\ c \in DeriveCallers
    /\ call[c] = IdleCall
    /\ \E network \in Networks, pepperArg \in PepperArgs,
          callback \in BOOLEAN, expiryDateSecs \in ExpiryChoices :
         LET r == [IdleCall EXCEPT !.network = network, !.pepperArg = pepperArg,
                       !.callback = callback, !.expiryDateSecs = expiryDateSecs]
         IN  call' = [call EXCEPT ![c] =
                 IF PepperUndefined(pepperArg)
                 THEN [r EXCEPT !.pc = "awaitPepper", !.pepperReqs = @ + 1]
                 ELSE deriveWithPepper(r, HexToUint8Array(pepperArg[1]))]
    /\ UNCHANGED <<now, ticks, cache, sim>>

\* getProof(args) called directly, up to its first await (lines 134-135)
getProof(c) ==
    /\ c \in ProofCallers
    /\ call[c] = IdleCall
    /\ \E network \in Networks, expiryDateSecs \in ExpiryChoices :
         call' = [call EXCEPT ![c] =
             getProofCall([IdleCall EXCEPT !.network = network,
                 !.expiryDateSecs = expiryDateSecs,
                 !.pepper = <<Bytes(PEPPER_LENGTH, 239)>>])]
    /\ UNCHANGED <<now, ticks, cache, sim>>

\* the pepper service answers getPepper's request (lines 117-124, 183)
PepperServiceResponds(c) ==
    /\ call[c].pc = "awaitPepper"
    /\ \E data \in PepperResponses :
         call' = [call EXCEPT ![c] =
             deriveWithPepper([@ EXCEPT !.servicePepper = <<data>>],
                              HexToUint8Array(data))]
    /\ UNCHANGED <<now, ticks, cache, sim>>

\* the pepper service request fails: postAptosPepperService throws
PepperServiceFails(c) ==
    /\ call[c].pc = "awaitPepper"
    /\ call' = [call EXCEPT ![c] = [@ EXCEPT !.pc = "threw", !.error = "PepperService"]]
    /\ UNCHANGED <<now, ticks, cache, sim>>

\* the full node answers getKeylessConfigurationResource (lines 47-48): the
\* request for the verification key follows
ConfigurationResourceResponds(c) ==
    /\ call[c].task = "awaitConfigurationResource"
    /\ \E s \in HorizonStrings :
         call' = [call EXCEPT ![c] =
             [@ EXCEPT !.task = "awaitVerificationKey", !.maxExpStr = s,
                       !.nodeReqs = @ + 1]]
    /\ UNCHANGED <<now, ticks, cache, sim>>

\* the full node answers getGroth16VerificationKeyResource (lines 48-49): the
\* configuration is created and memoized, getProof's await gets it
VerificationKeyResponds(c) ==
    /\ call[c].task = "awaitVerificationKey"
    /\ LET r == call[c]
           config == KeylessConfigurationCreate(<<"vk", r.network>>, Number(r.maxExpStr))
       IN  /\ cache' = memoizeStore(KeylessCacheKey(r.network), config)
           /\ call' = [call EXCEPT ![c] =
                  [@ EXCEPT !.task = "awaitConfig", !.config = <<config>>,
                            !.fetchedAt = <<now>>]]
    /\ UNCHANGED <<now, ticks, sim>>

\* a full node request fails: getKeylessConfig, and with it getProof, throws
FullNodeFails(c) ==
    /\ call[c].task \in {"awaitConfigurationResource", "awaitVerificationKey"}
    /\ call' = [call EXCEPT ![c] = ProofRejected(@, "FullNode")]
    /\ UNCHANGED <<now, ticks, cache, sim>>

\* getProof resumes with the configuration (lines 135-155)
getProofResumes(c) ==
    /\ call[c].task = "awaitConfig"
    /\ LET r == call[c]
           maxExpHorizonSecs == r.config[1].maxExpHorizonSecs
           seen == [r EXCEPT !.lifetime = <<r.expiryDateSecs - currentTimeInSeconds>>]
       IN  call' = [call EXCEPT ![c] =
               IF TooLongLived(maxExpHorizonSecs, r.expiryDateSecs, currentTimeInSeconds)
               THEN ProofRejected(seen, "TooLongLived")
               ELSE [seen EXCEPT !.task = "awaitProve", !.proveReqs = @ + 1,
                         !.proveBody = <<ProverRequest(r, maxExpHorizonSecs)>>]]
    /\ UNCHANGED <<now, ticks, cache, sim>>

\* what the proving service may answer
ProverResponses ==
    [proof : {7}, training_wheels_signature : {9}, exp_horizon_secs : {999}]

\* the proving service answers (lines 157-169)
ProvingServiceResponds(c) ==
    /\ call[c].task = "awaitProve"
    /\ \E data \in ProverResponses :
         call' = [call EXCEPT ![c] =
             ProofResolved(@, ZeroKnowledgeSig(data, @.config[1].maxExpHorizonSecs))]
    /\ UNCHANGED <<now, ticks, cache, sim>>

\* as ProveFailed, sending the prove request again
ProveFailed_Retry(r) == [r EXCEPT !.proveReqs = @ + 1]

\* the prove request fails: postAptosProvingService throws
ProveFailed(r) == ProofRejected(r, "ProvingService")

ProvingServiceFails(c) ==
    /\ call[c].task = "awaitProve"
    /\ call' = [call EXCEPT ![c] = ProveFailed(@)]
    /\ UNCHANGED <<now, ticks, cache, sim>>

Next ==
    \/ Tick
    \/ \E c \in Callers : deriveKeylessAccount(c)
    \/ \E c \in Callers : getProof(c)
    \/ \E c \in Callers : PepperServiceResponds(c)
    \/ \E c \in Callers : PepperServiceFails(c)
    \/ \E c \in Callers : ConfigurationResourceResponds(c)
    \/ \E c \in Callers : VerificationKeyResponds(c)
    \/ \E c \in Callers : FullNodeFails(c)
    \/ \E c \in Callers : getProofResumes(c)
    \/ \E c \in Callers : ProvingServiceResponds(c)
    \/ \E c \in Callers : ProvingServiceFails(c)

Spec == Init /\ [][Next]_vars

----------------------------------------------------------------------------
(* Simulate.simple and Simulate.multiAgent *)

\* an args object is a function from the names of the properties it has
Obj(names, transaction) ==
    [k \in names |->
        CASE k = "transaction" -> transaction
          [] k = "signerPublicKey" -> "signerKey"
          [] k = "feePayerPublicKey" -> "feePayerKey"
          [] k = "options" -> "estimateGasUnitPrice"
          [] k = "secondarySignersPublicKeys" -> <<"secondKey", "undefined">>]

\* raw transactions: without and with a fee payer address
Transactions == {[feePayerAddress |-> <<>>], [feePayerAddress |-> <<"0xfee">>]}

SimpleArgs ==
    { Obj(names \cup {"transaction"}, t) :
        names \in SUBSET {"signerPublicKey", "feePayerPublicKey", "options"},
        t \in Transactions }

MultiAgentArgs ==
    { Obj(names \cup {"transaction"}, t) :
        names \in SUBSET {"signerPublicKey", "feePayerPublicKey", "options",
                          "secondarySignersPublicKeys"},
        t \in Transactions }

\* what simulateTransaction may return or throw
SimulateOutcomes ==
    { <<"returned", "success">>, <<"returned", "vmError">>, <<"threw", "ApiError">> }

\* @ValidateFeePayerDataOnSimulation: a fee payer transaction simulated
\* without the fee payer's public key is refused
FeePayerDataMissing(args) ==
    /\ args["transaction"].feePayerAddress # <<>>
    /\ "feePayerPublicKey" \notin DOMAIN args

\* as SimulateTransactionArgs, with a default AptosConfig for this.config
SimulateTransactionArgs_DefaultConfig(config, args) ==
    args @@ ("aptosConfig" :> "devnetConfig")

\* { aptosConfig: this.config, ...args }
SimulateTransactionArgs(config, args) == args @@ ("aptosConfig" :> config)

\* a decorated method is called: the decorator throws, or the method calls
\* simulateTransaction
SimulateCall(method, args) ==
    IF FeePayerDataMissing(args)
    THEN [SimulateNew(sim.config) EXCEPT !.constructed = sim.constructed,
             !.pc = "done", !.method = method, !.args = <<args>>,
             !.result = <<"threw", "MissingFeePayerPublicKey">>]
    ELSE [SimulateNew(sim.config) EXCEPT !.constructed = sim.constructed,
             !.pc = "simulating", !.method = method, !.args = <<args>>,
             !.forwarded = <<SimulateTransactionArgs(sim.config, args)>>]

\* Simulate.simple(args)
simple ==
    /\ sim.pc \in {"idle", "done"}
    /\ \E args \in SimpleArgs : sim' = SimulateCall("simple", args)
    /\ UNCHANGED keylessVars

\* Simulate.multiAgent(args)
multiAgent ==
    /\ sim.pc \in {"idle", "done"}
    /\ \E args \in MultiAgentArgs : sim' = SimulateCall("multiAgent", args)
    /\ UNCHANGED keylessVars

\* simulateTransaction settles: the method's promise settles the same way
simulateTransactionSettles ==
    /\ sim.pc = "simulating"
    /\ \E o \in SimulateOutcomes :
         sim' = [sim EXCEPT !.pc = "done", !.outcome = o, !.result = o]
    /\ UNCHANGED keylessVars

SimInit ==
    /\ now = 0
    /\ ticks = 0
    /\ cache = <<>>
    /\ call = [c \in Callers |-> IdleCall]
    /\ \E config \in AptosConfigs : sim = SimulateNew(config)

SimNext ==
    \/ simple
    \/ multiAgent
    \/ simulateTransactionSettles

SimSpec == SimInit /\ [][SimNext]_vars

----------------------------------------------------------------------------
(* Claims *)

Pending(r) ==
    r.task \in {"awaitConfigurationResource", "awaitVerificationKey",
                "awaitConfig", "awaitProve"}

MaxExp(r) == r.config[1].maxExpHorizonSecs

ThmC2 ==
    \A c \in DeriveCallers :
        LET r == call[c]
        IN  /\ (r.pepper # <<>> /\ Len(r.pepper[1]) # PEPPER_LENGTH) =>
                /\ r.pc = "threw"
                /\ r.error = "PepperLength"
                /\ r.task = "none"
                /\ r.config = <<>>
                /\ r.nodeReqs = 0
                /\ r.proveReqs = 0
                /\ r.account = <<>>
            /\ r.error = "PepperLength" =>
                (r.pepper # <<>> /\ Len(r.pepper[1]) # PEPPER_LENGTH)

\* a pepper of the wrong length came back from the pepper service and the
\* derivation threw
WitC2 ==
    \E c \in DeriveCallers :
        /\ call[c].servicePepper # <<>>
        /\ Len(call[c].pepper[1]) = PEPPER_LENGTH + 1
        /\ call[c].error = "PepperLength"

\* the other caller's record, when it has completed a configuration fetch for
\* network n no more than 5 minutes ago
FreshFetches(c, n) ==
    { d \in Callers \ {c} :
        /\ call[d].fetchedAt # <<>>
        /\ call[d].network = n
        /\ now - call[d].fetchedAt[1] <= 5 * 60 * 1000 }

\* C3: the keyless configuration is cached per network for 5 minutes: a call
\* of getKeylessConfig made within 5 minutes of a completed fetch for the same
\* network sends no full node request and gets the configuration that fetch
\* produced; a call made later, or for another network, requests the
\* Configuration resource again and, once that is answered, the verification
\* key; a configuration is only ever handed to calls on the network it was
\* fetched from.
ThmC3 ==
    [][ /\ \A c \in Callers :
          (call[c].task = "none" /\ call'[c].task # "none") =>
              LET r == call'[c]
                  fresh == FreshFetches(c, r.network)
              IN  /\ fresh # {} =>
                        /\ r.nodeReqs = 0
                        /\ r.task = "awaitConfig"
                        /\ \E d \in fresh : r.config = call[d].config
                  /\ fresh = {} =>
                        /\ r.nodeReqs = 1
                        /\ r.task = "awaitConfigurationResource"
                        /\ r.config = <<>>
        /\ \A c \in Callers :
              call'[c].config # <<>> =>
                  /\ call'[c].config[1].verificationKey = <<"vk", call'[c].network>>
                  /\ ~call'[c].fromCache => call'[c].nodeReqs = 2
      ]_vars

\* one call was answered from the cache exactly 5 minutes after the other
\* call's fetch, with no full node request of its own
WitC3 ==
    \E c \in Callers, d \in Callers :
        /\ c # d
        /\ call[c].fromCache
        /\ call[c].nodeReqs = 0
        /\ call[c].task = "awaitConfig"
        /\ call[d].fetchedAt # <<>>
        /\ now - call[d].fetchedAt[1] = 5 * 60 * 1000
        /\ call[c].config = call[d].config

\* C4: with a proofFetchCallback, deriveKeylessAccount does not wait for the
\* proof: from the moment getProof is started the account exists, holding the
\* proof as a promise, and deriveKeylessAccount has returned without an error;
\* when getProof fails, whatever the failure, the callback is told and
\* deriveKeylessAccount still has returned the account.
ThmC4 ==
    \A c \in DeriveCallers :
        LET r == call[c]
        IN  (r.callback /\ r.task # "none") =>
                /\ r.pc = "returned"
                /\ r.error = ""
                /\ r.account # <<>>
                /\ r.account[1].proofIsPromise
                /\ Pending(r) => (r.account[1].proof = <<>> /\ r.cbStatus = "")
                /\ r.task = "rejected" =>
                       (r.cbStatus = "Failed" /\ r.account[1].proof = <<>>)
                /\ r.task = "resolved" =>
                       (r.cbStatus = "Success" /\ r.account[1].proof = r.proof)

\* with a callback, the account was returned and the proof fetch then failed
\* as too long lived
WitC4 ==
    \E c \in DeriveCallers :
        /\ call[c].callback
        /\ call[c].pc = "returned"
        /\ call[c].task = "rejected"
        /\ call[c].taskError = "TooLongLived"
        /\ call[c].cbStatus = "Failed"

\* C5: without a proofFetchCallback one deriveKeylessAccount call runs in
\* sequence: while the pepper is awaited nothing else has been requested; the
\* proof fetch is started only with a pepper of the right length; the account
\* exists only after getProof has returned, and holds that proof; when
\* getProof fails, deriveKeylessAccount throws the same error and no account
\* is created.
ThmC5 ==
    \A c \in DeriveCallers :
        LET r == call[c]
        IN  (~r.callback /\ r.pc # "idle") =>
                /\ r.pc = "awaitPepper" =>
                       (r.task = "none" /\ r.nodeReqs = 0 /\ r.proveReqs = 0)
                /\ r.task # "none" =>
                       (r.pepper # <<>> /\ Len(r.pepper[1]) = PEPPER_LENGTH)
                /\ Pending(r) => (r.pc = "awaitProof" /\ r.account = <<>>)
                /\ r.account # <<>> =>
                       /\ r.pc = "returned"
                       /\ r.task = "resolved"
                       /\ r.proveReqs = 1
                       /\ r.account[1].proof = r.proof
                       /\ ~r.account[1].proofIsPromise
                /\ r.pc = "returned" => r.account # <<>>
                /\ r.task = "rejected" =>
                       (r.pc = "threw" /\ r.error = r.taskError /\ r.account = <<>>)

\* without a callback, the pepper was fetched, the prove request failed and
\* deriveKeylessAccount threw that error
WitC5 ==
    \E c \in DeriveCallers :
        /\ ~call[c].callback
        /\ call[c].pepperReqs = 1
        /\ call[c].taskError = "ProvingService"
        /\ call[c].pc = "threw"
        /\ call[c].error = "ProvingService"

\* C6: one deriveKeylessAccount call sends at most one request to the pepper
\* service and at most one to the proving service, with or without a
\* callback; after a failure of either service the call has settled with that
\* error and the request has been sent exactly once.
ThmC6 ==
    \A c \in DeriveCallers :
        LET r == call[c]
        IN  /\ r.pepperReqs <= 1
            /\ r.proveReqs <= 1
            /\ r.error = "PepperService" =>
                   (r.pc = "threw" /\ r.pepperReqs = 1 /\ r.task = "none")
            /\ r.taskError = "ProvingService" =>
                   /\ r.task = "rejected"
                   /\ r.proveReqs = 1
                   /\ r.callback => r.cbStatus = "Failed"
                   /\ ~r.callback => r.error = "ProvingService"

\* both services were asked once and the proving service failed
WitC6 ==
    \E c \in DeriveCallers :
        /\ call[c].pepperReqs = 1
        /\ call[c].proveReqs = 1
        /\ call[c].taskError = "ProvingService"
        /\ call[c].callback

\* hex digits of n bytes that are all 16 * hi + lo
HexDigits(n, hi, lo) == [i \in 1..(2 * n) |-> IF i % 2 = 1 THEN hi ELSE lo]

ThmC8 ==
    \A c \in DeriveCallers :
        LET r == call[c]
            supplied == r.pepperArg # <<>>
        IN  r.pc # "idle" =>
                /\ supplied => (r.pepperReqs = 0 /\ r.servicePepper = <<>>)
                /\ ~supplied => r.pepperReqs = 1
                /\ r.proveBody # <<>> =>
                       r.proveBody[1].pepper =
                           IF supplied THEN HexDigits(PEPPER_LENGTH, 10, 11)
                                       ELSE r.servicePepper[1].data
                /\ r.account # <<>> =>
                       r.account[1].pepper =
                           IF supplied THEN Bytes(PEPPER_LENGTH, 171)
                                       ELSE Bytes(PEPPER_LENGTH, 205)

\* a supplied pepper went into the prove request and into the account
\* without any pepper service request
WitC8 ==
    \E c \in DeriveCallers :
        /\ call[c].pepperArg # <<>>
        /\ call[c].pepperReqs = 0
        /\ call[c].proveBody # <<>>
        /\ call[c].account # <<>>
        /\ call[c].task = "resolved"

\* C9: every ZeroKnowledgeSig getProof returns has expHorizonSecs equal to
\* the maxExpHorizonSecs of the configuration getProof read, fresh or cached,
\* which is also the exp_horizon_secs of the prove request and the value the
\* lifetime was validated against; it is not taken from the prover's response.
ThmC9 ==
    \A c \in Callers :
        LET r == call[c]
        IN  r.proof # <<>> =>
                /\ r.config # <<>>
                /\ MaxExp(r) \in {200, 300}
                /\ r.proof[1].expHorizonSecs = MaxExp(r)
                /\ r.proveBody[1].exp_horizon_secs = MaxExp(r)
                /\ r.lifetime[1] <= MaxExp(r)
                /\ r.proof[1].expHorizonSecs
                       \notin {d.exp_horizon_secs : d \in ProverResponses}

\* getProof returned a proof for a configuration it got from the cache
WitC9 ==
    \E c \in Callers :
        /\ call[c].proof # <<>>
        /\ call[c].fromCache
        /\ call[c].proof[1].expHorizonSecs = 200

\* C10: every key pair for which getProof sends a prove request has a
\* remaining lifetime strictly less than maxExpHorizonSecs, as the 'too long
\* lived' message says it must.
CexC10 ==
    \A c \in Callers :
        call[c].proveReqs > 0 => call[c].lifetime[1] < MaxExp(call[c])

\* C11: the lifetime check of getProof bounds the lifetime from above only: a
\* key pair that has already expired when the check runs (expiryDateSecs
\* earlier than the current time, a negative remaining lifetime) is not
\* rejected by getProof or by deriveKeylessAccount; the prove request is sent
\* for it, with its expiryDateSecs, and only the proving service can fail it.
ThmC11 ==
    \A c \in Callers :
        LET r == call[c]
        IN  (r.lifetime # <<>> /\ r.lifetime[1] < 0) =>
                /\ r.expiryDateSecs < currentTimeInSeconds
                /\ r.proveReqs = 1
                /\ r.proveBody # <<>>
                /\ r.proveBody[1].exp_date_secs = r.expiryDateSecs
                /\ r.task \in {"awaitProve", "resolved", "rejected"}
                /\ r.taskError \in {"", "ProvingService"}
                /\ r.error \in {"", "ProvingService"}
                /\ (r.task = "resolved" /\ c \in DeriveCallers) =>
                       (r.pc = "returned" /\ r.account # <<>>)

\* deriveKeylessAccount returned an account, with its proof, for a key pair
\* that had expired 299 seconds before getProof checked its lifetime
WitC11 ==
    \E c \in DeriveCallers :
        /\ call[c].lifetime # <<>>
        /\ call[c].lifetime[1] = 0 - 299
        /\ call[c].proveReqs = 1
        /\ call[c].task = "resolved"
        /\ call[c].pc = "returned"
        /\ call[c].account # <<>>
        /\ call[c].account[1].proof = call[c].proof

====
